---- MODULE Spec2Model ----
(***************************************************************************)
(* Model of src/vscode/extension.ts: the Dataform VS Code extension.       *)
(*                                                                         *)
(* The extension host is a single-threaded event loop.  Every action below *)
(* is one run-to-completion segment of extension.ts (from an entry point   *)
(* or the resumption of an `await` up to the next `await` or return), or   *)
(* one event of the environment (language server, user, host).             *)
(***************************************************************************)
EXTENDS Integers, Sequences, FiniteSets, TLC

(***************************************************************************)
(* Bounds of the model.                                                    *)
(***************************************************************************)
MaxFormats == 2
MaxCompiles == 1
MaxNotifs == 2
MaxActivations == 2

(***************************************************************************)
(* The values the environment draws from.                                  *)
(***************************************************************************)
Channels == {"error", "info", "success"}
Payloads == {"m1", "m2"}
Responses == {"edits1", "edits2"}
Schemes == {"file", "vscode-remote"}
MarkerNames == {"workflow_settings.yaml", "dataform.json"}
RootFileNames == MarkerNames \cup {"README.md"}
Selections == {"Install", "Don't show again", "dismissed"}

\* The single workspace folder's root, and the documents an editor can show.
\* Paths are sequences of segments.
FolderPath == <<"w">>
Docs == {"a", "b", "c"}
DocPath(d) ==
  CASE d = "a" -> <<"w", "a.sqlx">>
    [] d = "b" -> <<"w", "definitions", "b.sqlx">>
    [] d = "c" -> <<"tmp", "c.sqlx">>

NoWorkspaceMsg == "Dataform files outside of a workspace are not supported."
RemoteMsg == "Remote Dataform files are not supported."
MissingMarkerMsg == "Workspaces without workflow_settings.yaml (or dataform.json) are not supported."
AdvisoryMsg == "The Dataform extension recommends installing the YAML extension for workflow_settings.yaml support."

VARIABLES
  host,          \* "inactive" | "active" | "deactivated": what the host did to the extension
  pcActivate,    \* position of activate(): "idle", "awaitReady", "awaitPrompt", "done", "rejected"
  client,        \* the module-level client: "uninit", "started", "ready", "failed"
  registered,    \* compile command and sqlx formatter are live in context.subscriptions
  handlers,      \* notification channels with a handler attached to the client
  cfg,           \* dataform.recommendYamlExtension: [user, workspace]
  yamlInstalled, \* redhat.vscode-yaml is installed
  wsScheme,      \* URI scheme of the workspace folder
  rootFiles,     \* files directly under the workspace root
  activeDoc,     \* vscode.window.activeTextEditor.document
  fmt,           \* the invocations of provideDocumentFormattingEdits
  compileSent,   \* "compile" requests handed to the client
  emitted,       \* notifications the language server has emitted
  notifShown,    \* UI messages shown by the notification handlers
  prompts,       \* advisory prompts shown by this activation
  advisoryInput, \* what the advisory check read (history)
  opened,        \* number of vscode.env.openExternal calls
  optedOut,      \* "Don't show again" has been chosen (history)
  activations    \* number of activations so far

vars == <<host, pcActivate, client, registered, handlers, cfg, yamlInstalled,
          wsScheme, rootFiles, activeDoc, fmt, compileSent, emitted,
          notifShown, prompts, advisoryInput, opened, optedOut, activations>>

sessionVars == <<host, pcActivate, client, registered, handlers>>
advisoryVars == <<cfg, prompts, advisoryInput, opened, optedOut>>
envVars == <<yamlInstalled, wsScheme, rootFiles, activeDoc>>
relayVars == <<fmt, compileSent, emitted, notifShown>>

(***************************************************************************)
(* Host API used by the extension.                                         *)
(***************************************************************************)
IsPrefix(p, s) == Len(p) <= Len(s) /\ SubSeq(s, 1, Len(p)) = p

\* A document's URI scheme: documents under the folder share its scheme.
DocScheme(d) == IF IsPrefix(FolderPath, DocPath(d)) THEN wsScheme ELSE "file"

NoFolder == [found |-> FALSE, scheme |-> "", fsPath |-> <<>>]
TheFolder == [found |-> TRUE, scheme |-> wsScheme, fsPath |-> FolderPath]

\* vscode.workspace.getWorkspaceFolder(uri)
getWorkspaceFolder(d) ==
  IF DocScheme(d) = wsScheme /\ IsPrefix(FolderPath, DocPath(d))
  THEN TheFolder ELSE NoFolder

\* vscode.workspace.asRelativePath(uri, false): the path below the workspace
\* folder, or the input path when no workspace folder contains it.
asRelativePath(d) ==
  IF getWorkspaceFolder(d).found
  THEN SubSeq(DocPath(d), Len(FolderPath) + 1, Len(DocPath(d)))
  ELSE DocPath(d)

\* vscode.workspace.findFiles(RelativePattern(folder, "{a,b}"), null, 1):
\* the possible results, at most one of the matching root files.
findFiles(names) ==
  LET hits == rootFiles \cap names
  IN  IF hits = {} THEN {<<>>} ELSE {<<h>> : h \in hits}

\* workspace.getConfiguration("dataform").get("recommendYamlExtension"):
\* the effective value, a workspace value overriding the user (global) one.
getConfiguration_get(c) ==
  IF c.workspace # "unset" THEN c.workspace = "true" ELSE c.user

\* getConfiguration("dataform").update(key, v, ConfigurationTarget.Global)
getConfiguration_update(c, v) == [c EXCEPT !.user = v]

(***************************************************************************)
(* getProjectDirPath                                                       *)
(***************************************************************************)
Ok(p) == [isError |-> FALSE, message |-> "", path |-> p]
Err(m) == [isError |-> TRUE, message |-> m, path |-> <<>>]
Pending == [isError |-> FALSE, message |-> "pending", path |-> <<>>]

\* getProjectDirPath_checks without the scheme check of lines 119-121.
getProjectDirPath_checks_NoSchemeCheck(folder) ==
  IF ~folder.found THEN [search |-> FALSE, result |-> Err(NoWorkspaceMsg)]
  ELSE [search |-> TRUE, result |-> Pending]

\* Lines 113-121: the checks made before the file search.  "search" means
\* that both passed and findFiles is called.
getProjectDirPath_checks(folder) ==
  IF ~folder.found THEN [search |-> FALSE, result |-> Err(NoWorkspaceMsg)]
  ELSE IF folder.scheme # "file" THEN [search |-> FALSE, result |-> Err(RemoteMsg)]
  ELSE [search |-> TRUE, result |-> Pending]

\* Lines 127-131: the result once findFiles has answered with yamls.
getProjectDirPath_result(folder, yamls) ==
  IF Len(yamls) = 0 THEN Err(MissingMarkerMsg) ELSE Ok(folder.fsPath)

(***************************************************************************)
(* provideDocumentFormattingEdits                                          *)
(***************************************************************************)
FormatIds == 1..MaxFormats

IdleFormat ==
  [pc |-> "idle", folder |-> NoFolder, searched |-> 0,
   projectDir |-> Pending, shownErr |-> <<>>, sent |-> <<>>,
   resp |-> "none", ret |-> "none"]

\* formatAfterLocator without the `return` of line 100: the error is shown
\* and the request is sent all the same.
formatAfterLocator_NoReturn(f, projectDir, d) ==
  [f EXCEPT !.projectDir = projectDir,
            !.shownErr = IF projectDir.isError
                         THEN Append(@, projectDir.message) ELSE @,
            !.sent = Append(@, [method |-> "format",
                                projectDir |-> projectDir.path,
                                action |-> asRelativePath(d),
                                doc |-> d]),
            !.pc = IF projectDir.isError THEN "awaitErrorShown"
                   ELSE "awaitResponse"]

\* Lines 98-106: what the action does once the locator has returned
\* projectDir, with d the active document at that moment.
formatAfterLocator(f, projectDir, d) ==
  IF projectDir.isError
  THEN [f EXCEPT !.projectDir = projectDir,
                 !.shownErr = Append(@, projectDir.message),
                 !.pc = "awaitErrorShown"]
  ELSE [f EXCEPT !.projectDir = projectDir,
                 !.sent = Append(@, [method |-> "format",
                                     projectDir |-> projectDir.path,
                                     action |-> asRelativePath(d),
                                     doc |-> d]),
                 !.pc = "awaitResponse"]

\* The `await client.onReady()` continuation is a microtask: it runs before
\* the event loop handles any other event.
MicrotaskPending == pcActivate = "awaitReady" /\ client \in {"ready", "failed"}

\* The state of a freshly started extension host, before activation.
InitSession ==
  /\ host = "inactive"
  /\ pcActivate = "idle"
  /\ client = "uninit"
  /\ registered = FALSE
  /\ handlers = {}
  /\ fmt = [i \in FormatIds |-> IdleFormat]
  /\ compileSent = <<>>
  /\ emitted = <<>>
  /\ notifShown = <<>>
  /\ prompts = <<>>
  /\ advisoryInput = [read |-> FALSE, cfg |-> cfg, installed |-> yamlInstalled]
  /\ opened = 0
  /\ optedOut = FALSE
  /\ activations = 0

\* A local Dataform project opened for the first time: the advisory flag is
\* enabled and the YAML extension is not installed.
Init ==
  /\ cfg = [user |-> TRUE, workspace |-> "unset"]
  /\ yamlInstalled = FALSE
  /\ wsScheme = "file"
  /\ rootFiles = {"workflow_settings.yaml", "README.md"}
  /\ activeDoc = "a"
  /\ InitSession

(***************************************************************************)
(* activate                                                                *)
(***************************************************************************)
\* ActivateStart without the `await` of line 53: the handlers are attached
\* as soon as the client has been started.
ActivateStart_NoAwait ==
  /\ host = "inactive"
  /\ pcActivate = "idle"
  /\ host' = "active"
  /\ client' = "started"
  /\ registered' = TRUE
  /\ handlers' = {"error", "info", "success"}
  /\ pcActivate' = "awaitReady"
  /\ activations' = activations + 1
  /\ UNCHANGED <<advisoryVars, envVars, relayVars>>

\* ActivateStart with client.start() (line 50) moved behind the `await`:
\* the commands are registered on a client that has not been started.
ActivateStart_StartLater ==
  /\ host = "inactive"
  /\ pcActivate = "idle"
  /\ host' = "active"
  /\ registered' = TRUE
  /\ pcActivate' = "awaitReady"
  /\ activations' = activations + 1
  /\ UNCHANGED <<client, handlers, advisoryVars, envVars, relayVars>>

\* Lines 13-53: construct the client, register the compile command and the
\* formatter, start the client, suspend on client.onReady().
ActivateStart ==
  /\ host = "inactive"
  /\ pcActivate = "idle"
  /\ host' = "active"
  /\ client' = "started"
  /\ registered' = TRUE
  /\ pcActivate' = "awaitReady"
  /\ activations' = activations + 1
  /\ UNCHANGED <<handlers, advisoryVars, envVars, relayVars>>

\* The language server completes the initialize handshake.
ClientReady ==
  /\ client = "started"
  /\ client' = "ready"
  /\ UNCHANGED <<host, pcActivate, registered, handlers, advisoryVars,
                 envVars, relayVars, activations>>

\* The language server fails to start: client.onReady() rejects.
ClientFail ==
  /\ client = "started"
  /\ client' = "failed"
  /\ UNCHANGED <<host, pcActivate, registered, handlers, advisoryVars,
                 envVars, relayVars, activations>>

\* ActivateOnReady without the check of line 70: the prompt is shown
\* whether or not the YAML extension is installed.
ActivateOnReady_NoExtensionCheck ==
  /\ pcActivate = "awaitReady"
  /\ client = "ready"
  /\ handlers' = handlers \cup {"error", "info", "success"}
  /\ advisoryInput' = [read |-> TRUE, cfg |-> cfg, installed |-> yamlInstalled]
  /\ IF getConfiguration_get(cfg)
     THEN /\ prompts' = Append(prompts, [text |-> AdvisoryMsg,
                                         items |-> <<"Install", "Don't show again">>])
          /\ pcActivate' = "awaitPrompt"
     ELSE /\ prompts' = prompts
          /\ pcActivate' = "done"
  /\ UNCHANGED <<host, client, registered, cfg, opened, optedOut, envVars,
                 relayVars, activations>>

\* Lines 54-71: attach the three notification handlers, then the advisory
\* check, suspending on the prompt when it is shown.
ActivateOnReady ==
  /\ pcActivate = "awaitReady"
  /\ client = "ready"
  /\ handlers' = handlers \cup {"error", "info", "success"}
  /\ advisoryInput' = [read |-> TRUE, cfg |-> cfg, installed |-> yamlInstalled]
  /\ IF getConfiguration_get(cfg) /\ ~yamlInstalled
     THEN /\ prompts' = Append(prompts, [text |-> AdvisoryMsg,
                                         items |-> <<"Install", "Don't show again">>])
          /\ pcActivate' = "awaitPrompt"
     ELSE /\ prompts' = prompts
          /\ pcActivate' = "done"
  /\ UNCHANGED <<host, client, registered, cfg, opened, optedOut, envVars,
                 relayVars, activations>>

\* Line 53 throws when onReady() rejects: activate() ends rejected.
ActivateOnReject ==
  /\ pcActivate = "awaitReady"
  /\ client = "failed"
  /\ pcActivate' = "rejected"
  /\ UNCHANGED <<host, client, registered, handlers, advisoryVars, envVars,
                 relayVars, activations>>

\* Lines 75-91: the user answers (or dismisses) the advisory prompt.
PromptAnswer ==
  /\ pcActivate = "awaitPrompt"
  /\ \E selection \in Selections :
       /\ opened' = IF selection = "Install" THEN opened + 1 ELSE opened
       /\ cfg' = IF selection = "Don't show again"
                 THEN getConfiguration_update(cfg, FALSE) ELSE cfg
       /\ optedOut' = (optedOut \/ selection = "Don't show again")
  /\ pcActivate' = "done"
  /\ UNCHANGED <<host, client, registered, handlers, prompts, advisoryInput,
                 envVars, relayVars, activations>>

(***************************************************************************)
(* The host's side of the life cycle.  extension.ts exports no deactivate  *)
(* function, so deactivation only disposes context.subscriptions (line 48).*)
(***************************************************************************)
Deactivate ==
  /\ host = "active"
  /\ ~MicrotaskPending
  /\ host' = "deactivated"
  /\ registered' = FALSE
  /\ UNCHANGED <<pcActivate, client, handlers, advisoryVars, envVars,
                 relayVars, activations>>

\* The extension host process is restarted: module state (line 10) and all
\* pending work are gone, configuration and installed extensions persist.
HostRestart ==
  /\ host = "deactivated"
  /\ activations < MaxActivations
  /\ host' = "inactive"
  /\ pcActivate' = "idle"
  /\ client' = "uninit"
  /\ registered' = FALSE
  /\ handlers' = {}
  /\ fmt' = [i \in FormatIds |-> IdleFormat]
  /\ compileSent' = <<>>
  /\ emitted' = <<>>
  /\ notifShown' = <<>>
  /\ prompts' = <<>>
  /\ advisoryInput' = [read |-> FALSE, cfg |-> cfg, installed |-> yamlInstalled]
  /\ opened' = 0
  /\ UNCHANGED <<cfg, optedOut, envVars, activations>>

(***************************************************************************)
(* Command relay.                                                          *)
(***************************************************************************)
\* Lines 40-42: the "dataform.compile" command.
CompileInvoke ==
  /\ registered
  /\ ~MicrotaskPending
  /\ Len(compileSent) < MaxCompiles
  /\ compileSent' = Append(compileSent, [method |-> "compile"])
  /\ UNCHANGED <<sessionVars, advisoryVars, envVars, fmt, emitted, notifShown,
                 activations>>

\* Lines 96-99 and 111-126: the host calls the formatter; the locator runs
\* up to the file search, or returns an error that is shown at once.
FormatInvoke ==
  /\ registered
  /\ ~MicrotaskPending
  /\ \E i \in FormatIds :
       /\ fmt[i].pc = "idle"
       /\ \A j \in FormatIds : j < i => fmt[j].pc # "idle"
       /\ LET folder == getWorkspaceFolder(activeDoc)
              chk == getProjectDirPath_checks(folder)
              f0 == [fmt[i] EXCEPT !.folder = folder]
          IN  fmt' = [fmt EXCEPT ![i] =
                IF chk.search
                THEN [f0 EXCEPT !.searched = @ + 1, !.pc = "awaitFindFiles"]
                ELSE formatAfterLocator(f0, chk.result, activeDoc)]
  /\ UNCHANGED <<sessionVars, advisoryVars, envVars, compileSent, emitted,
                 notifShown, activations>>

\* Lines 126-131 and 98-106: findFiles answers; the locator returns and the
\* action shows the error or sends the "format" request.
FormatFilesFound ==
  /\ ~MicrotaskPending
  /\ \E i \in FormatIds :
       /\ fmt[i].pc = "awaitFindFiles"
       /\ \E yamls \in findFiles(MarkerNames) :
            fmt' = [fmt EXCEPT ![i] =
              formatAfterLocator(fmt[i],
                                 getProjectDirPath_result(fmt[i].folder, yamls),
                                 activeDoc)]
  /\ UNCHANGED <<sessionVars, advisoryVars, envVars, compileSent, emitted,
                 notifShown, activations>>

\* Lines 99-100: the error message is closed; the action returns undefined.
FormatErrorClosed ==
  /\ ~MicrotaskPending
  /\ \E i \in FormatIds :
       /\ fmt[i].pc = "awaitErrorShown"
       /\ fmt' = [fmt EXCEPT ![i].pc = "done", ![i].ret = "undefined"]
  /\ UNCHANGED <<sessionVars, advisoryVars, envVars, compileSent, emitted,
                 notifShown, activations>>

\* Lines 106-107: the language server answers the "format" request; the
\* awaited value is dropped and the action returns undefined.
FormatResponse ==
  /\ ~MicrotaskPending
  /\ client = "ready"
  /\ \E i \in FormatIds, x \in Responses :
       /\ fmt[i].pc = "awaitResponse"
       /\ fmt' = [fmt EXCEPT ![i].pc = "done", ![i].resp = x,
                             ![i].ret = "undefined"]
  /\ UNCHANGED <<sessionVars, advisoryVars, envVars, compileSent, emitted,
                 notifShown, activations>>

(***************************************************************************)
(* Notification relay.                                                     *)
(***************************************************************************)
\* notificationHandler with the "success" handler showing nothing worth
\* reading: the payload is dropped.
notificationHandler_SuccessDropsPayload(ch, message) ==
  CASE ch = "error" -> [severity |-> "error", text |-> message]
    [] ch = "info" -> [severity |-> "information", text |-> message]
    [] ch = "success" -> [severity |-> "information", text |-> ""]

\* Lines 54-62: what the handler of a channel shows.
notificationHandler(ch, message) ==
  CASE ch = "error" -> [severity |-> "error", text |-> message]
    [] ch = "info" -> [severity |-> "information", text |-> message]
    [] ch = "success" -> [severity |-> "information", text |-> message]

\* The language server emits a notification; the client dispatches it to
\* the handler attached to its channel, if any, and drops it otherwise.  A
\* server sends its notifications once the handshake is complete, that is to
\* a ready client, and the event loop handles them after the continuation
\* of line 53 has run.
NotificationArrives ==
  /\ client = "ready"
  /\ ~MicrotaskPending
  /\ Len(emitted) < MaxNotifs
  /\ \E ch \in Channels, message \in Payloads :
       /\ emitted' = Append(emitted, [channel |-> ch, payload |-> message])
       /\ notifShown' = IF ch \in handlers
                        THEN Append(notifShown, notificationHandler(ch, message))
                        ELSE notifShown
  /\ UNCHANGED <<sessionVars, advisoryVars, envVars, fmt, compileSent,
                 activations>>

(***************************************************************************)
(* The user.                                                               *)
(***************************************************************************)
\* The user activates another editor: window.activeTextEditor changes.
SwitchEditor ==
  /\ ~MicrotaskPending
  /\ \E d \in Docs \ {activeDoc} : activeDoc' = d
  /\ UNCHANGED <<sessionVars, advisoryVars, yamlInstalled, wsScheme,
                 rootFiles, relayVars, activations>>

\* The user installs the YAML extension.
InstallYaml ==
  /\ ~MicrotaskPending
  /\ ~yamlInstalled
  /\ yamlInstalled' = TRUE
  /\ UNCHANGED <<sessionVars, advisoryVars, wsScheme, rootFiles, activeDoc,
                 relayVars, activations>>

Next ==
  \/ ActivateStart
  \/ ClientReady
  \/ ClientFail
  \/ ActivateOnReady
  \/ ActivateOnReject
  \/ PromptAnswer
  \/ Deactivate
  \/ HostRestart
  \/ CompileInvoke
  \/ FormatInvoke
  \/ FormatFilesFound
  \/ FormatErrorClosed
  \/ FormatResponse
  \/ NotificationArrives
  \/ SwitchEditor
  \/ InstallYaml

Spec == Init /\ [][Next]_vars

(***************************************************************************)
(* The life cycle with the notification relay: activation, the client, the *)
(* notifications of the language server and the compile command, in the    *)
(* project of Init.                                                        *)
(***************************************************************************)
RelayNext ==
  \/ ActivateStart
  \/ ClientReady
  \/ ClientFail
  \/ ActivateOnReady
  \/ ActivateOnReject
  \/ PromptAnswer
  \/ Deactivate
  \/ HostRestart
  \/ CompileInvoke
  \/ NotificationArrives

RelaySpec == Init /\ [][RelayNext]_vars

(***************************************************************************)
(* The life cycle with the command relay: activation, the client, the      *)
(* compile command and the formatter, in the project of Init.              *)
(***************************************************************************)
CommandNext ==
  \/ ActivateStart
  \/ ClientReady
  \/ ClientFail
  \/ ActivateOnReady
  \/ ActivateOnReject
  \/ PromptAnswer
  \/ Deactivate
  \/ HostRestart
  \/ CompileInvoke
  \/ FormatInvoke
  \/ FormatFilesFound
  \/ FormatErrorClosed
  \/ FormatResponse
  \/ SwitchEditor

CommandSpec == Init /\ [][CommandNext]_vars

(***************************************************************************)
(* The formatter and the locator over every workspace: each scheme, each   *)
(* set of root files and each active editor.  The advisory is switched     *)
(* off, so activation ends without a prompt.                               *)
(***************************************************************************)
FormatInit ==
  /\ cfg = [user |-> FALSE, workspace |-> "unset"]
  /\ yamlInstalled = TRUE
  /\ wsScheme \in Schemes
  /\ rootFiles \in SUBSET RootFileNames
  /\ activeDoc \in Docs
  /\ InitSession

FormatNext ==
  \/ ActivateStart
  \/ ClientReady
  \/ ActivateOnReady
  \/ FormatInvoke
  \/ FormatFilesFound
  \/ FormatErrorClosed
  \/ FormatResponse
  \/ SwitchEditor

FormatSpec == FormatInit /\ [][FormatNext]_vars

(***************************************************************************)
(* The life cycle and the advisory alone, over every configuration.        *)
(***************************************************************************)
AdvisoryInit ==
  /\ cfg \in [user : BOOLEAN, workspace : {"unset", "true", "false"}]
  /\ yamlInstalled \in BOOLEAN
  /\ wsScheme = "file"
  /\ rootFiles = {"workflow_settings.yaml", "README.md"}
  /\ activeDoc = "a"
  /\ InitSession

AdvisoryNext ==
  \/ ActivateStart
  \/ ClientReady
  \/ ClientFail
  \/ ActivateOnReady
  \/ ActivateOnReject
  \/ PromptAnswer
  \/ Deactivate
  \/ HostRestart
  \/ InstallYaml

AdvisorySpec == AdvisoryInit /\ [][AdvisoryNext]_vars

(***************************************************************************)
(* The claims.                                                             *)
(***************************************************************************)
\* The locator of invocation f has returned.
Located(f) == f.pc \in {"awaitErrorShown", "awaitResponse", "done"}

LocatorMessages == {NoWorkspaceMsg, RemoteMsg, MissingMarkerMsg}

\* C1: whenever the locator of a format invocation has returned an error,
\* exactly one error message, carrying the locator's message, has been shown
\* by that invocation and it has sent no "format" request, up to and after
\* its end.
C1_LocatorErrorShownOnceNoRequest ==
  \A i \in FormatIds :
    (Located(fmt[i]) /\ fmt[i].projectDir.isError) =>
      /\ fmt[i].projectDir.message \in LocatorMessages
      /\ fmt[i].shownErr = <<fmt[i].projectDir.message>>
      /\ fmt[i].sent = <<>>

\* C1 witness: an invocation whose locator failed has run to its end.
C1_Witness ==
  \E i \in FormatIds : fmt[i].pc = "done" /\ fmt[i].projectDir.isError

\* C2: whenever the locator of a format invocation has succeeded with path
\* P, the invocation has sent exactly one "format" request, whose payload is
\* [P, R] with R the path of the active document relative to the workspace
\* root P (P followed by R is that document's path), and it has shown no
\* error message.
C2_OneRequestWithRelativePath ==
  \A i \in FormatIds :
    (Located(fmt[i]) /\ ~fmt[i].projectDir.isError) =>
      /\ Len(fmt[i].sent) = 1
      /\ fmt[i].sent[1].method = "format"
      /\ fmt[i].sent[1].projectDir = fmt[i].projectDir.path
      /\ fmt[i].sent[1].projectDir \o fmt[i].sent[1].action
           = DocPath(fmt[i].sent[1].doc)
      /\ fmt[i].shownErr = <<>>

\* C3: the locator's result is decided by the three inputs in priority
\* order (no folder, then a folder that is not local whatever its files,
\* then no marker at the root, else the folder's path), and findFiles is
\* called exactly when the first two checks pass.
C3_LocatorPriorityOrder ==
  \A i \in FormatIds :
    LET f == fmt[i]
        hasFolder == f.folder.found
        isLocal == f.folder.scheme = "file"
        hasMarker == \E m \in rootFiles : m \in MarkerNames
    IN  /\ f.searched = IF f.pc # "idle" /\ hasFolder /\ isLocal THEN 1 ELSE 0
        /\ Located(f) =>
             f.projectDir =
               IF ~hasFolder THEN Err(NoWorkspaceMsg)
               ELSE IF ~isLocal THEN Err(RemoteMsg)
               ELSE IF ~hasMarker THEN Err(MissingMarkerMsg)
               ELSE Ok(f.folder.fsPath)

\* C3 witness: the locator has succeeded on a folder that holds only the
\* deprecated dataform.json, and has failed on a remote folder with a marker.
C3_Witness ==
  \E i \in FormatIds :
    /\ Located(fmt[i])
    /\ \/ /\ ~fmt[i].projectDir.isError
          /\ rootFiles \cap MarkerNames = {"dataform.json"}
          /\ fmt[i].searched = 1
       \/ /\ fmt[i].projectDir = Err(RemoteMsg)
          /\ rootFiles \cap MarkerNames # {}
          /\ fmt[i].searched = 0

\* C4: a notification handler is attached only to a client that has been
\* started and has signalled readiness, and none is attached while
\* activate() has not passed the readiness wait.
C4_HandlersOnlyWhenReady ==
  /\ handlers # {} => client = "ready"
  /\ pcActivate \in {"idle", "awaitReady", "rejected"} => handlers = {}

\* C4 witness: the three handlers are attached to the ready client.
C4_Witness == handlers = Channels /\ client = "ready"

\* What the claim says the user sees for a notification.
ExpectedMessage(n) ==
  [severity |-> IF n.channel = "error" THEN "error" ELSE "information",
   text |-> n.payload]

\* C5: the k-th notification emitted is the k-th message shown, "error" at
\* error severity and "info" and "success" as information, none lost and
\* none repeated; and the arrival of a notification sends no request.
C5_EachNotificationShownOnce ==
  /\ [](notifShown = [k \in 1..Len(emitted) |-> ExpectedMessage(emitted[k])])
  /\ [][Len(emitted') > Len(emitted) => UNCHANGED <<compileSent, fmt>>]_vars

\* C5 witness: a "success" notification has been emitted and shown.
C5_Witness ==
  /\ Len(emitted) >= 1
  /\ emitted[1].channel = "success"
  /\ Len(notifShown) = Len(emitted)

\* C6: the compile command and the formatter are live, and a compile or
\* format action has been invoked, only on a client that has been started.
C6_RelayOnStartedClient ==
  (\/ registered
   \/ compileSent # <<>>
   \/ \E i \in FormatIds : fmt[i].pc # "idle") => client # "uninit"

\* C6 witness: both a compile and a format request have been dispatched.
C6_Witness ==
  /\ compileSent # <<>>
  /\ \E i \in FormatIds : fmt[i].sent # <<>>

\* C7: once the host has deactivated the extension, no client remains
\* started or ready.
C7_ClientTornDownOnDeactivate ==
  host = "deactivated" => client \notin {"started", "ready"}

\* The flag as the claim reads it: enabled where the advisory reads it.
FlagEnabled(c) == c.workspace = "true" \/ (c.workspace = "unset" /\ c.user)

C9_NoPromptAfterOptOut ==
  optedOut => (~cfg.user /\ pcActivate # "awaitPrompt")

\* C10: a format invocation that was answered with response X returns X.
C10_ResponseRelayed ==
  \A i \in FormatIds :
    (fmt[i].pc = "done" /\ fmt[i].resp # "none") => fmt[i].ret = fmt[i].resp

====
